---------------------------- MODULE Spec2Model ----------------------------
(***************************************************************************)
(* Model of the Tableau automation scripts.                                *)
(*                                                                         *)
(*   Spec         the export pipeline (exportAs: __main__ and the          *)
(*                functions it calls), one action per stage                *)
(*   SpecResolve  get_workbook applied to every bounded server answer      *)
(*   SpecLayout   the pure layout arithmetic: split_image's crop boxes,    *)
(*                add_image_to_ppt and add_image_to_pdf                    *)
(*                                                                         *)
(* Names (view names, file names) are sequences of string tokens in which  *)
(* the token "." is the dot character, so that str.split(".") and the      *)
(* f-strings that build file names are computed, not assumed.              *)
(* Lengths in the layout arithmetic are exact rationals [n, d]; Python     *)
(* computes them in floating point.  Slide lengths are in inches (the      *)
(* library's EMU unit is 914400 per inch and cancels), page lengths in mm. *)
(***************************************************************************)
EXTENDS Integers, Sequences, FiniteSets, TLC

VARIABLES
    \* ---- export pipeline (exportAs 3.py) ----
    pc,                  \* next stage of __main__
    export_type,         \* CLI argument: "ppt" or "pdf"
    session,             \* "none" | "signed_in" | "signed_out"
    config,              \* the loaded JSON configuration
    workbook,            \* the resolved workbook (with its views once populated)
    image_export_option, \* the ImageRequestOptions built by get_image_export
    export_id,           \* the uuid of the run
    img_dir,             \* the variable img_dir of __main__ (a path)
    dirs,                \* directories that exist on disk
    files,               \* files on disk: set of [dir, name, content]
    img_indexing,        \* the global image index
    server_calls,        \* render requests sent to the server, in order
    doc,                 \* the saved output document: sequence of pages
    error,               \* the uncaught exception, NoError if none
    exit_code,           \* -1 while running, 0 or 1 once the process exited
    cleanup_attempted,   \* STEP 7 was entered
    sign_out_attempted,  \* server.auth.sign_out() was called
    \* ---- get_workbook in isolation ----
    all_workbooks,       \* list(TSC.Pager(server.workbooks))
    resolution,          \* outcome of get_workbook
    \* ---- layout arithmetic ----
    lpc,                 \* "image" | "split"
    img_size,            \* <<width, height>> of the exported image
    tiles,               \* crop boxes produced by split_image
    placed,              \* last placement computed by a deck assembler
    \* ---- a second run of the export on the same machine ----
    run,                 \* 1 or 2
    prev,                \* what the first run loaded and produced
    \* ---- permission replication (replicatePermissions 1.py) ----
    r_pc,                \* "populate" | "replicate" | "done" | "failed"
    r_groups,            \* all_groups, in dict order: [id, name]
    r_projects,          \* all_projects, in dict order, with their permission rules
    r_next,              \* position of the next project of init_replicate's loop
    r_updates,           \* update calls sent to the server, in order
    \* ---- deactivation of inactive viewers (text.py) ----
    d_pc,                \* position in __main__ / in the body of the site loop
    d_users,             \* the users of the site, as the server holds them
    d_min_role,          \* minimum_site_role of the site's group 'All Users'
    d_session,           \* "none" | "signed_in" | "signed_out"
    d_sign_outs,         \* number of sign_out calls for the site
    d_inactive,          \* inactive_users (positions in d_users)
    d_sent,              \* positions of the users sent through server.users.update
    d_error              \* the exception caught, "" if none

exportVars == <<pc, export_type, session, config, workbook, image_export_option,
                export_id, img_dir, dirs, files, img_indexing, server_calls, doc,
                error, exit_code, cleanup_attempted, sign_out_attempted>>
resolveVars == <<all_workbooks, resolution>>
layoutVars == <<lpc, img_size, tiles, placed>>
rerunVars == <<run, prev>>
replicateVars == <<r_pc, r_groups, r_projects, r_next, r_updates>>
deactVars == <<d_pc, d_users, d_min_role, d_session, d_sign_outs, d_inactive, d_sent,
               d_error>>
vars == <<exportVars, resolveVars, layoutVars, rerunVars, replicateVars, deactVars>>
\* what the actions of one script leave alone
besideExport == <<resolveVars, layoutVars, rerunVars, replicateVars, deactVars>>
besideResolve == <<exportVars, layoutVars, rerunVars, replicateVars, deactVars>>
besideLayout == <<exportVars, resolveVars, rerunVars, replicateVars, deactVars>>
besideReplicate == <<exportVars, resolveVars, layoutVars, rerunVars, deactVars>>
besideDeact == <<exportVars, resolveVars, layoutVars, rerunVars, replicateVars>>

---------------------------------------------------------------------------
(* Bounds *)

MaxViews == 2        \* views on a workbook, and names in slide_views
MaxWorkbooks == 3    \* workbooks returned by the server
MaxDim == 5          \* small image dimensions 1..MaxDim (odd and even)
DimStep == 250       \* large image dimensions are multiples of DimStep
MaxMult == 3         \* ... up to MaxMult * DimStep

---------------------------------------------------------------------------
(* Exact rational arithmetic *)

RECURSIVE GCD(_, _)
GCD(a, b) == IF b = 0 THEN a ELSE GCD(b, a % b)

Abs(n) == IF n < 0 THEN -n ELSE n

Frac(n, d) ==
    LET g == GCD(Abs(n), d) IN [n |-> n \div g, d |-> d \div g]

FInt(n) == [n |-> n, d |-> 1]
FMul(a, b) == Frac(a.n * b.n, a.d * b.d)
FDiv(a, b) == Frac(a.n * b.d, a.d * b.n)
FSub(a, b) == Frac(a.n * b.d - b.n * a.d, a.d * b.d)
FLt(a, b) == a.n * b.d < b.n * a.d
FLe(a, b) == a.n * b.d <= b.n * a.d
\* variant: the larger of the two (max in place of min)
FMinMutant(a, b) == IF FLt(b, a) THEN a ELSE b
\* Python's min(a, b): b only when b < a
FMin(a, b) == IF FLt(b, a) THEN b ELSE a

---------------------------------------------------------------------------
(* Names *)

Dot == "."
ViewNames == {<<"Sales">>, <<"Ops">>, <<"Sales", Dot, "EU">>}

ToStr(i) == IF i = 0 THEN "0" ELSE IF i = 1 THEN "1" ELSE IF i = 2 THEN "2" ELSE "3"

\* f"{view_name}.png", f"{view_name}.csv"
PngName(view_name) == view_name \o <<Dot, "png">>
CsvName(view_name) == view_name \o <<Dot, "csv">>

\* img_file.split(".")[0]
RECURSIVE SplitFirst(_)
SplitFirst(s) ==
    IF s = <<>> \/ Head(s) = Dot THEN <<>> ELSE <<Head(s)>> \o SplitFirst(Tail(s))

\* f"{img_name}_tile_{row}_{col}.png"
TileName(img_name, row, col) ==
    img_name \o <<"_tile_", ToStr(row), "_", ToStr(col), Dot, "png">>

\* os.path.join(img_dir, name)
PathJoin(dir, name) == dir \o <<name>>

\* sequences of distinct elements of S, of length at most n
DistinctSeqs(S, n) ==
    {s \in UNION {[1..k -> S] : k \in 0..n} :
        \A i, j \in 1..Len(s) : i # j => s[i] # s[j]}

SeqRange(s) == {s[i] : i \in 1..Len(s)}

\* ','.join(values)
RECURSIVE JoinComma(_)
JoinComma(values) ==
    IF values = <<>> THEN <<>>
    ELSE IF Len(values) = 1 THEN <<values[1]>>
    ELSE <<values[1], ",">> \o JoinComma(Tail(values))

---------------------------------------------------------------------------
(* split_image *)

\* variant: the loops without the skip of (0, 1)
SplitCellsMutant(rows, cols) ==
    [k \in 1..(rows * cols) |-> <<(k - 1) \div cols, (k - 1) % cols>>]
\* the (row, col) cells for which the double loop emits a tile, in loop order
SplitCells(rows, cols) ==
    LET all == [k \in 1..(rows * cols) |-> <<(k - 1) \div cols, (k - 1) % cols>>]
        Emitted(cell) == ~(cell[1] = 0 /\ cell[2] = 1)
    IN SelectSeq(all, Emitted)

\* variant: the last row extended to the image's lower edge
TileBoxMutant(width, height, rows, cols, row, col) ==
    LET tile_width == width \div cols
        tile_height == height \div rows
    IN IF row = 0
       THEN [left |-> 0, upper |-> row * tile_height,
             right |-> width, lower |-> row * tile_height + tile_height]
       ELSE [left |-> col * tile_width, upper |-> row * tile_height,
             right |-> col * tile_width + tile_width, lower |-> height]
\* the crop box (left, upper, right, lower) of the tile at (row, col)
TileBox(width, height, rows, cols, row, col) ==
    LET tile_width == width \div cols
        tile_height == height \div rows
    IN IF row = 0
       THEN [left |-> 0, upper |-> row * tile_height,
             right |-> width, lower |-> row * tile_height + tile_height]
       ELSE [left |-> col * tile_width, upper |-> row * tile_height,
             right |-> col * tile_width + tile_width,
             lower |-> row * tile_height + tile_height]

\* the entries split_image appends to tmp_index for one image
split_image(rows, cols, img_name) ==
    LET cells == SplitCells(rows, cols)
    IN [k \in 1..Len(cells) |->
          [name |-> TileName(img_name, cells[k][1], cells[k][2]),
           row |-> cells[k][1], col |-> cells[k][2]]]

---------------------------------------------------------------------------
(* Deck assemblers: layout arithmetic *)

Inches(n) == FInt(n)
\* prs.slide_width, prs.slide_height of Presentation(): 10 in x 7.5 in
SlideWidth == Inches(10)
SlideHeight == Frac(15, 2)

add_image_to_ppt_layout(img_width, img_height, slide_width, slide_height) ==
    LET max_width == Inches(8)
        max_height == Inches(6)
        width_scale == FDiv(max_width, FInt(img_width))
        height_scale == FDiv(max_height, FInt(img_height))
        scale == FMin(width_scale, height_scale)
    IN [left |-> FDiv(FSub(slide_width, FMul(FInt(img_width), scale)), FInt(2)),
        top |-> FDiv(FSub(slide_height, FMul(FInt(img_height), scale)), FInt(2)),
        width |-> FMul(FInt(img_width), scale),
        height |-> FMul(FInt(img_height), scale),
        scale |-> scale]

\* pdf.w, pdf.h of FPDF(orientation, unit="mm", format=page_type), whole mm
PageTypes == {"A4", "A5"}
Orientations == {"landscape", "portrait"}
PageSize(page_type, orientation) ==
    LET short == IF page_type = "A4" THEN 210 ELSE 148
        long == IF page_type = "A4" THEN 297 ELSE 210
    IN IF orientation = "landscape"
       THEN [w |-> FInt(long), h |-> FInt(short)]
       ELSE [w |-> FInt(short), h |-> FInt(long)]

add_image_to_pdf_layout(img_width, img_height, page_width, page_height) ==
    LET ratio_width == FDiv(page_width, FInt(img_width))
        ratio_height == FDiv(page_height, FInt(img_height))
        new ==
            IF FLt(page_width, FInt(img_width)) \/ FLt(page_height, FInt(img_height))
            THEN IF FLt(ratio_width, ratio_height)
                 THEN [w |-> page_width, h |-> FMul(FInt(img_height), ratio_width)]
                 ELSE [w |-> FMul(FInt(img_width), ratio_height), h |-> page_height]
            ELSE [w |-> FInt(img_width), h |-> FInt(img_height)]
    IN [x |-> FDiv(FSub(page_width, new.w), FInt(2)),
        y |-> FDiv(FSub(page_height, new.h), FInt(2)),
        w |-> new.w, h |-> new.h]

---------------------------------------------------------------------------
(* Shared sentinels *)

NoError == [type |-> "", msg |-> "", stage |-> ""]
NoWorkbook == [name |-> "", project_name |-> "", id |-> 0, views |-> <<>>]
NoConfig == [keys |-> {}, workbook_name |-> "", project_name |-> "",
             slide_views |-> <<>>, filters |-> <<>>]
NoOption == [imageresolution |-> "", maxage |-> 0, vf |-> <<>>]
NoDoc == [path |-> <<>>, pages |-> <<>>]
NoResolution == [called |-> FALSE, raised |-> NoError, value |-> NoWorkbook]
NoPlacement == [variant |-> "none", img_width |-> 0, img_height |-> 0,
                bound_w |-> FInt(0), bound_h |-> FInt(0),
                canvas_w |-> FInt(0), canvas_h |-> FInt(0),
                left |-> FInt(0), top |-> FInt(0),
                width |-> FInt(0), height |-> FInt(0)]

ExportIdle ==
    /\ pc = "connect" /\ export_type = "ppt" /\ session = "none"
    /\ config = NoConfig /\ workbook = NoWorkbook
    /\ image_export_option = NoOption /\ export_id = "" /\ img_dir = <<>>
    /\ dirs = {} /\ files = {} /\ img_indexing = <<>> /\ server_calls = <<>>
    /\ doc = NoDoc /\ error = NoError /\ exit_code = -1
    /\ cleanup_attempted = FALSE /\ sign_out_attempted = FALSE
ResolveIdle == all_workbooks = <<>> /\ resolution = NoResolution
LayoutIdle == lpc = "image" /\ img_size = <<1, 1>> /\ tiles = <<>> /\ placed = NoPlacement
NoPrev == [config |-> NoConfig, workbook |-> NoWorkbook, index |-> <<>>, pages |-> 0,
           export_id |-> ""]
RerunIdle == run = 1 /\ prev = NoPrev
ReplicateIdle ==
    /\ r_pc = "populate" /\ r_groups = <<>> /\ r_projects = <<>>
    /\ r_next = 1 /\ r_updates = <<>>
DeactIdle ==
    /\ d_pc = "start" /\ d_users = <<>> /\ d_min_role = "Viewer"
    /\ d_session = "none" /\ d_sign_outs = 0 /\ d_inactive = <<>>
    /\ d_sent = {} /\ d_error = ""

---------------------------------------------------------------------------
(* get_workbook *)

WorkbookNames == {"WB", "WB2"}
ProjectNames == {"P", "Q"}
WorkbookItems ==
    [name : WorkbookNames, project_name : ProjectNames, id : 1..MaxWorkbooks,
     views : {<<>>}]

\* every answer of the server: up to MaxWorkbooks workbooks, ids 1..k in any order
WorkbookLists ==
    {l \in UNION {[1..k -> WorkbookItems] : k \in 0..MaxWorkbooks} :
        /\ \A i \in 1..Len(l) : l[i].id <= Len(l)
        /\ \A i, j \in 1..Len(l) : i # j => l[i].id # l[j].id}

\* variant: no check for several matches
get_workbook_mutant(workbooks, workbook_name, project_name) ==
    LET Matches(w) == w.name = workbook_name /\ w.project_name = project_name
        matching_workbooks == SelectSeq(workbooks, Matches)
    IN IF Len(matching_workbooks) = 0
       THEN [raised |-> [type |-> "FileExistsError", msg |-> "not found",
                         stage |-> "get_workbook"],
             value |-> NoWorkbook]
       ELSE [raised |-> NoError, value |-> matching_workbooks[1]]
\* get_workbook(server, workbook_name, project_name) on the server's list
get_workbook(workbooks, workbook_name, project_name) ==
    LET Matches(w) == w.name = workbook_name /\ w.project_name = project_name
        matching_workbooks == SelectSeq(workbooks, Matches)
    IN IF Len(matching_workbooks) = 0
       THEN [raised |-> [type |-> "FileExistsError", msg |-> "not found",
                         stage |-> "get_workbook"],
             value |-> NoWorkbook]
       ELSE IF Len(matching_workbooks) > 1
       THEN [raised |-> [type |-> "FileExistsError", msg |-> "Multiple workbooks",
                         stage |-> "get_workbook"],
             value |-> NoWorkbook]
       ELSE [raised |-> NoError, value |-> matching_workbooks[1]]

InitResolve ==
    /\ all_workbooks \in WorkbookLists
    /\ resolution = NoResolution
    /\ ExportIdle /\ LayoutIdle /\ RerunIdle /\ ReplicateIdle /\ DeactIdle

\* one call get_workbook(server, "WB", "P") against the server's answer
ResolveWorkbook ==
    /\ ~resolution.called
    /\ LET r == get_workbook(all_workbooks, "WB", "P")
       IN resolution' = [called |-> TRUE, raised |-> r.raised, value |-> r.value]
    /\ UNCHANGED <<all_workbooks, besideResolve>>

NextResolve == ResolveWorkbook
SpecResolve == InitResolve /\ [][NextResolve]_vars

---------------------------------------------------------------------------
(* Layout arithmetic as a state machine *)

Dims == (1..MaxDim) \cup {DimStep * k : k \in 1..MaxMult}

InitLayout ==
    /\ lpc = "image"
    /\ img_size \in Dims \X Dims
    /\ tiles = <<>>
    /\ placed = NoPlacement
    /\ ExportIdle /\ ResolveIdle /\ RerunIdle /\ ReplicateIdle /\ DeactIdle

\* split_image(image_path, output_dir, 2, 2, ...): the boxes handed to img.crop
SplitImage ==
    /\ lpc = "image"
    /\ LET cells == SplitCells(2, 2)
       IN tiles' = [k \in 1..Len(cells) |->
                      [row |-> cells[k][1], col |-> cells[k][2],
                       box |-> TileBox(img_size[1], img_size[2], 2, 2,
                                       cells[k][1], cells[k][2])]]
    /\ lpc' = "split"
    /\ UNCHANGED <<img_size, placed, besideLayout>>

\* img.size of the tile file saved from a crop box
TileWidth(t) == t.box.right - t.box.left
TileHeight(t) == t.box.lower - t.box.upper

\* add_image_to_ppt on one tile (a tile file exists only with positive size)
AddImageToPpt ==
    /\ lpc = "split"
    /\ \E k \in 1..Len(tiles) :
        /\ TileWidth(tiles[k]) > 0 /\ TileHeight(tiles[k]) > 0
        /\ LET r == add_image_to_ppt_layout(TileWidth(tiles[k]), TileHeight(tiles[k]),
                                            SlideWidth, SlideHeight)
           IN placed' = [variant |-> "ppt",
                         img_width |-> TileWidth(tiles[k]),
                         img_height |-> TileHeight(tiles[k]),
                         bound_w |-> Inches(8), bound_h |-> Inches(6),
                         canvas_w |-> SlideWidth, canvas_h |-> SlideHeight,
                         left |-> r.left, top |-> r.top,
                         width |-> r.width, height |-> r.height]
    /\ UNCHANGED <<lpc, img_size, tiles, besideLayout>>

\* add_image_to_pdf on one tile, for a page type and orientation
AddImageToPdf ==
    /\ lpc = "split"
    /\ \E k \in 1..Len(tiles), page_type \in PageTypes, orientation \in Orientations :
        /\ TileWidth(tiles[k]) > 0 /\ TileHeight(tiles[k]) > 0
        /\ LET page == PageSize(page_type, orientation)
               r == add_image_to_pdf_layout(TileWidth(tiles[k]), TileHeight(tiles[k]),
                                            page.w, page.h)
           IN placed' = [variant |-> "pdf",
                         img_width |-> TileWidth(tiles[k]),
                         img_height |-> TileHeight(tiles[k]),
                         bound_w |-> page.w, bound_h |-> page.h,
                         canvas_w |-> page.w, canvas_h |-> page.h,
                         left |-> r.x, top |-> r.y,
                         width |-> r.w, height |-> r.h]
    /\ UNCHANGED <<lpc, img_size, tiles, besideLayout>>

NextLayout == SplitImage \/ AddImageToPpt \/ AddImageToPdf
SpecLayout == InitLayout /\ [][NextLayout]_vars

---------------------------------------------------------------------------
(* Export pipeline: files, configuration, stages *)

ExportIds == {"uuid-a", "uuid-b"}
ExportTypes == {"ppt", "pdf"}

ConfigKeys == {"workbook_name", "project_name", "slide_views", "filters"}
RequiredKeys == {"workbook_name", "project_name", "slide_views"}
FilterLists ==
    {<<>>, <<[description |-> "Region", values |-> <<"East", "West">>]>>}

\* the JSON objects load_config may return: all keys, or one key missing
KeySets == {ConfigKeys} \cup {ConfigKeys \ {k} : k \in ConfigKeys}
Configs ==
    {[keys |-> ks,
      workbook_name |-> IF "workbook_name" \in ks THEN "WB" ELSE "",
      project_name |-> IF "project_name" \in ks THEN "P" ELSE "",
      slide_views |-> IF "slide_views" \in ks THEN sv ELSE <<>>,
      filters |-> IF "filters" \in ks THEN fl ELSE <<>>] :
        ks \in KeySets, sv \in DistinctSeqs(ViewNames, MaxViews), fl \in FilterLists}

ImageContent(view_name) == [kind |-> "image", view |-> view_name, row |-> -1, col |-> -1]
CsvContent(view_name) == [kind |-> "csv", view |-> view_name, row |-> -1, col |-> -1]
TileContent(view_name, row, col) == [kind |-> "tile", view |-> view_name, row |-> row, col |-> col]

\* open(path, "wb").write(...) / tile.save(path): create or overwrite
WriteFile(fs, dir, name, content) ==
    {f \in fs : ~(f.dir = dir /\ f.name = name)}
        \cup {[dir |-> dir, name |-> name, content |-> content]}
HasFile(fs, dir, name) == \E f \in fs : f.dir = dir /\ f.name = name
ReadFile(fs, dir, name) == (CHOOSE f \in fs : f.dir = dir /\ f.name = name).content
\* os.listdir(dir)
ListDir(fs, dir) == {f \in fs : f.dir = dir}

ServerError(stage) == [type |-> "ServerError", msg |-> "", stage |-> stage]
KeyError(key) == [type |-> "KeyError", msg |-> key, stage |-> "__main__"]

\* get_image_export(filters)
get_image_export(filters) ==
    [imageresolution |-> "High", maxage |-> 1,
     vf |-> IF filters # <<>>
            THEN [i \in 1..Len(filters) |->
                    <<filters[i].description, JoinComma(filters[i].values)>>]
            ELSE <<>>]

\* variant: no view is skipped
SkippedMutant(view_name, ppt_slides) == FALSE
\* if view_name not in ppt_slides: continue
Skipped(view_name, ppt_slides) == view_name \notin SeqRange(ppt_slides)

\* export_images: the loop over workbook.views.  fault names the selected view
\* (counted from 1) and the server call at which the server raises; at = 0
\* means no call raises.  st = [index, files, calls, n, raised].
NoFault == [at |-> 0, call |-> ""]
RECURSIVE export_images(_, _, _, _, _, _)
export_images(views, ppt_slides, option, dir, st, fault) ==
    IF views = <<>> \/ st.raised THEN st
    ELSE LET view_name == Head(views)
             k == st.n + 1
             image_call == [call |-> "populate_image", view |-> view_name, vf |-> option.vf]
             csv_call == [call |-> "populate_csv", view |-> view_name, vf |-> option.vf]
         IN IF Skipped(view_name, ppt_slides)
            THEN export_images(Tail(views), ppt_slides, option, dir, st, fault)
            ELSE IF fault.at = k /\ fault.call = "populate_image"
            THEN [st EXCEPT !.calls = Append(@, image_call), !.raised = TRUE]
            ELSE LET st1 == [st EXCEPT
                               !.calls = Append(Append(@, image_call), csv_call),
                               !.index = Append(@, PngName(view_name)),
                               !.files = WriteFile(@, dir, PngName(view_name),
                                                   ImageContent(view_name)),
                               !.n = k]
                 IN IF fault.at = k /\ fault.call = "populate_csv"
                    THEN [st1 EXCEPT !.raised = TRUE]
                    ELSE export_images(Tail(views), ppt_slides, option, dir,
                           [st1 EXCEPT !.files = WriteFile(@, dir, CsvName(view_name),
                                                           CsvContent(view_name))],
                           fault)

\* the views export_images selects, in its loop order
Selected(views, ppt_slides) ==
    LET Wanted(v) == v \in SeqRange(ppt_slides) IN SelectSeq(views, Wanted)

\* split_image's writes for one image: tiles saved under output_dir
RECURSIVE SaveTiles(_, _, _, _)
SaveTiles(fs, output_dir, entries, source) ==
    IF entries = <<>> THEN fs
    ELSE SaveTiles(WriteFile(fs, output_dir, Head(entries).name,
                             TileContent(source.view, Head(entries).row, Head(entries).col)),
                   output_dir, Tail(entries), source)

\* generate_slide_imgs: the loop over img_indexing.  fail_at names the image
\* (counted from 1) whose Image.open or tile.save raises; 0 means none does.
\* st = [tmp_index, files, dirs, n, raised].
RECURSIVE generate_slide_imgs(_, _, _, _)
generate_slide_imgs(index, dir, st, fail_at) ==
    IF index = <<>> \/ st.raised THEN st
    ELSE LET img_file == Head(index)
             export_dir == PathJoin(dir, "slide_imgs")
             img_name == SplitFirst(img_file)
             entries == split_image(2, 2, img_name)
             k == st.n + 1
         IN IF fail_at = k \/ ~HasFile(st.files, dir, img_file)
            THEN [st EXCEPT !.raised = TRUE]
            ELSE generate_slide_imgs(Tail(index), dir,
                   [st EXCEPT
                      !.dirs = @ \cup {export_dir},
                      !.files = SaveTiles(@, export_dir, entries,
                                          ReadFile(st.files, dir, img_file)),
                      !.tmp_index = @ \o [i \in 1..Len(entries) |-> entries[i].name],
                      !.n = k],
                   fail_at)

\* the slide deck: add_title_slide, then add_image_to_ppt per image
TitlePage == [kind |-> "title", images |-> <<>>]
add_title_slide(prs) == Append(prs, TitlePage)
add_image_to_ppt(prs, fs, dir, img_file) ==
    Append(prs, [kind |-> "image",
                 images |-> <<[name |-> img_file, content |-> ReadFile(fs, dir, img_file)]>>])

RECURSIVE AddImagesPpt(_, _, _, _)
AddImagesPpt(prs, fs, dir, img_files) ==
    IF img_files = <<>> THEN prs
    ELSE AddImagesPpt(add_image_to_ppt(prs, fs, dir, Head(img_files)), fs, dir,
                      Tail(img_files))

RECURSIVE SetToSeq(_)
SetToSeq(S) ==
    IF S = {} THEN <<>>
    ELSE LET x == CHOOSE y \in S : TRUE IN <<x>> \o SetToSeq(S \ {x})

\* variant: the index in another order
get_images_mutant(fs, dir, index) == [i \in 1..Len(index) |-> index[Len(index) + 1 - i]]
\* variant: the commented-out body, os.listdir(img_dir)
get_images_listing(fs, dir, index) == SetToSeq({f.name : f \in ListDir(fs, dir)})
\* get_images(img_dir) returns the global index, not a directory listing
get_images(fs, dir, index) == index

create_deck(fs, dir, index) ==
    AddImagesPpt(add_title_slide(<<>>), fs, dir, get_images(fs, dir, index))

\* the PDF: add_title_page, then add_image_to_pdf per image
add_page(pdf) == Append(pdf, [kind |-> "image", images |-> <<>>])
add_title_page(pdf) == Append(pdf, TitlePage)
\* variant: pdf.image without the preceding pdf.add_page()
add_image_to_pdf_mutant(pdf, fs, dir, img_file) ==
    [pdf EXCEPT ![Len(pdf)].images =
        Append(@, [name |-> img_file, content |-> ReadFile(fs, dir, img_file)])]
add_image_to_pdf(pdf, fs, dir, img_file) ==
    LET p == add_page(pdf)
    IN [p EXCEPT ![Len(p)].images =
          Append(@, [name |-> img_file, content |-> ReadFile(fs, dir, img_file)])]

RECURSIVE AddImagesPdf(_, _, _, _)
AddImagesPdf(pdf, fs, dir, img_files) ==
    IF img_files = <<>> THEN pdf
    ELSE AddImagesPdf(add_image_to_pdf(pdf, fs, dir, Head(img_files)), fs, dir,
                      Tail(img_files))

export_as_pdf(fs, dir, index) ==
    AddImagesPdf(add_title_page(<<>>), fs, dir, get_images(fs, dir, index))

AllOpenable(fs, dir, index) == \A i \in 1..Len(index) : HasFile(fs, dir, index[i])

---------------------------------------------------------------------------
(* Export pipeline: __main__ *)

Init ==
    /\ pc = "connect"
    /\ export_type \in ExportTypes
    /\ session = "none"
    /\ config = NoConfig
    /\ workbook = NoWorkbook
    /\ image_export_option = NoOption
    /\ export_id = ""
    /\ img_dir = <<>>
    /\ dirs = {}
    /\ files = {}
    /\ img_indexing = <<>>
    /\ server_calls = <<>>
    /\ doc = NoDoc
    /\ error = NoError
    /\ exit_code = -1
    /\ cleanup_attempted = FALSE
    /\ sign_out_attempted = FALSE
    /\ ResolveIdle /\ LayoutIdle /\ RerunIdle /\ ReplicateIdle /\ DeactIdle

\* an uncaught exception: the traceback is printed and the process exits
Raise(err) ==
    /\ pc' = "exit"
    /\ exit_code' = 1
    /\ error' = err

\* STEP 1: connect_tableau()
ConnectTableau ==
    /\ pc = "connect"
    /\ session' = "signed_in"
    /\ pc' = "load_config"
    /\ UNCHANGED <<export_type, config, workbook, image_export_option, export_id,
                   img_dir, dirs, files, img_indexing, server_calls, doc, error,
                   exit_code, cleanup_attempted, sign_out_attempted>>
    /\ UNCHANGED besideExport

\* STEP 1: sign_in raises; connect_tableau re-raises
ConnectTableauFails ==
    /\ pc = "connect"
    /\ Raise(ServerError("connect_tableau"))
    /\ UNCHANGED <<export_type, session, config, workbook, image_export_option,
                   export_id, img_dir, dirs, files, img_indexing, server_calls, doc,
                   cleanup_attempted, sign_out_attempted>>
    /\ UNCHANGED besideExport

\* STEP 2: load_config and the reads of the three required keys
LoadConfig ==
    /\ pc = "load_config"
    /\ \E cfg \in Configs :
        /\ config' = cfg
        /\ IF "workbook_name" \notin cfg.keys THEN Raise(KeyError("workbook_name"))
           ELSE IF "project_name" \notin cfg.keys THEN Raise(KeyError("project_name"))
           ELSE IF "slide_views" \notin cfg.keys THEN Raise(KeyError("slide_views"))
           ELSE pc' = "get_workbook" /\ UNCHANGED <<error, exit_code>>
    /\ UNCHANGED <<export_type, session, workbook, image_export_option, export_id,
                   img_dir, dirs, files, img_indexing, server_calls, doc,
                   cleanup_attempted, sign_out_attempted>>
    /\ UNCHANGED besideExport

\* STEP 2: the file is missing or is not JSON; load_config re-raises
LoadConfigFails ==
    /\ pc = "load_config"
    /\ Raise([type |-> "ConfigFileError", msg |-> "", stage |-> "load_config"])
    /\ UNCHANGED <<export_type, session, config, workbook, image_export_option,
                   export_id, img_dir, dirs, files, img_indexing, server_calls, doc,
                   cleanup_attempted, sign_out_attempted>>
    /\ UNCHANGED besideExport

\* STEP 3: get_workbook against whatever list the server returns
GetWorkbook ==
    /\ pc = "get_workbook"
    /\ \E answer \in WorkbookLists :
        LET r == get_workbook(answer, config.workbook_name, config.project_name)
        IN IF r.raised # NoError
           THEN Raise(r.raised) /\ UNCHANGED workbook
           ELSE /\ workbook' = r.value
                /\ pc' = "populate_views"
                /\ UNCHANGED <<error, exit_code>>
    /\ UNCHANGED <<export_type, session, config, image_export_option, export_id,
                   img_dir, dirs, files, img_indexing, server_calls, doc,
                   cleanup_attempted, sign_out_attempted>>
    /\ UNCHANGED besideExport

\* STEP 3.1: server.workbooks.populate_views(workbook)
PopulateViews ==
    /\ pc = "populate_views"
    /\ \E vs \in DistinctSeqs(ViewNames, MaxViews) :
        workbook' = [workbook EXCEPT !.views = vs]
    /\ pc' = "get_image_export"
    /\ UNCHANGED <<export_type, session, config, image_export_option, export_id,
                   img_dir, dirs, files, img_indexing, server_calls, doc, error,
                   exit_code, cleanup_attempted, sign_out_attempted>>
    /\ UNCHANGED besideExport

PopulateViewsFails ==
    /\ pc = "populate_views"
    /\ Raise(ServerError("populate_views"))
    /\ UNCHANGED <<export_type, session, config, workbook, image_export_option,
                   export_id, img_dir, dirs, files, img_indexing, server_calls, doc,
                   cleanup_attempted, sign_out_attempted>>
    /\ UNCHANGED besideExport

\* STEP 4: get_image_export(config['filters'])
GetImageExport ==
    /\ pc = "get_image_export"
    /\ IF "filters" \notin config.keys
       THEN Raise(KeyError("filters")) /\ UNCHANGED image_export_option
       ELSE /\ image_export_option' = get_image_export(config.filters)
            /\ pc' = "makedirs"
            /\ UNCHANGED <<error, exit_code>>
    /\ UNCHANGED <<export_type, session, config, workbook, export_id, img_dir, dirs,
                   files, img_indexing, server_calls, doc, cleanup_attempted,
                   sign_out_attempted>>
    /\ UNCHANGED besideExport

\* STEP 5.1: the scratch directory img/<uuid4>
MakeDirs ==
    /\ pc = "makedirs"
    /\ \E id \in ExportIds :
        /\ export_id' = id
        /\ img_dir' = <<"img", id>>
        /\ dirs' = dirs \cup {<<"img">>, <<"img", id>>}
    /\ pc' = "export_images"
    /\ UNCHANGED <<export_type, session, config, workbook, image_export_option,
                   files, img_indexing, server_calls, doc, error, exit_code,
                   cleanup_attempted, sign_out_attempted>>
    /\ UNCHANGED besideExport

ExportStart == [index |-> img_indexing, files |-> files, calls |-> server_calls,
                n |-> 0, raised |-> FALSE]

\* STEP 5.2: export_images runs to its end
ExportImages ==
    /\ pc = "export_images"
    /\ LET st == export_images(workbook.views, config.slide_views, image_export_option,
                               img_dir, ExportStart, NoFault)
       IN /\ img_indexing' = st.index
          /\ files' = st.files
          /\ server_calls' = st.calls
    /\ pc' = "generate_slide_imgs"
    /\ UNCHANGED <<export_type, session, config, workbook, image_export_option,
                   export_id, img_dir, dirs, doc, error, exit_code,
                   cleanup_attempted, sign_out_attempted>>
    /\ UNCHANGED besideExport

\* variant: the exception is caught and logged, and the run goes on
ExportImagesFailsMutant ==
    /\ pc = "export_images"
    /\ \E at \in 1..Len(Selected(workbook.views, config.slide_views)),
          call \in {"populate_image", "populate_csv"} :
        LET st == export_images(workbook.views, config.slide_views, image_export_option,
                                img_dir, ExportStart, [at |-> at, call |-> call])
        IN /\ img_indexing' = st.index
           /\ files' = st.files
           /\ server_calls' = st.calls
    /\ error' = ServerError("export_images")
    /\ pc' = "generate_slide_imgs"
    /\ UNCHANGED <<export_type, session, config, workbook, image_export_option,
                   export_id, img_dir, dirs, doc, exit_code, cleanup_attempted,
                   sign_out_attempted>>
    /\ UNCHANGED besideExport
\* STEP 5.2: a server call inside export_images raises
ExportImagesFails ==
    /\ pc = "export_images"
    /\ \E at \in 1..Len(Selected(workbook.views, config.slide_views)),
          call \in {"populate_image", "populate_csv"} :
        LET st == export_images(workbook.views, config.slide_views, image_export_option,
                                img_dir, ExportStart, [at |-> at, call |-> call])
        IN /\ img_indexing' = st.index
           /\ files' = st.files
           /\ server_calls' = st.calls
    /\ Raise(ServerError("export_images"))
    /\ UNCHANGED <<export_type, session, config, workbook, image_export_option,
                   export_id, img_dir, dirs, doc, cleanup_attempted,
                   sign_out_attempted>>
    /\ UNCHANGED besideExport

TilingStart == [tmp_index |-> <<>>, files |-> files, dirs |-> dirs, n |-> 0,
                raised |-> FALSE]

\* STEP 5.3: img_dir = generate_slide_imgs(img_dir)
GenerateSlideImgs ==
    /\ pc = "generate_slide_imgs"
    /\ LET st == generate_slide_imgs(img_indexing, img_dir, TilingStart, 0)
       IN /\ ~st.raised
          /\ img_indexing' = st.tmp_index
          /\ files' = st.files
          /\ dirs' = st.dirs
    /\ img_dir' = PathJoin(img_dir, "slide_imgs")
    /\ pc' = "assemble"
    /\ UNCHANGED <<export_type, session, config, workbook, image_export_option,
                   export_id, server_calls, doc, error, exit_code,
                   cleanup_attempted, sign_out_attempted>>
    /\ UNCHANGED besideExport

\* STEP 5.3: an image cannot be opened or a tile cannot be saved
GenerateSlideImgsFails ==
    /\ pc = "generate_slide_imgs"
    /\ \E fail_at \in 1..Len(img_indexing) :
        LET st == generate_slide_imgs(img_indexing, img_dir, TilingStart, fail_at)
        IN /\ files' = st.files
           /\ dirs' = st.dirs
    /\ Raise([type |-> "RenderError", msg |-> "", stage |-> "generate_slide_imgs"])
    /\ UNCHANGED <<export_type, session, config, workbook, image_export_option,
                   export_id, img_dir, img_indexing, server_calls, doc,
                   cleanup_attempted, sign_out_attempted>>
    /\ UNCHANGED besideExport

\* STEP 6 (ppt): create_deck(img_dir, export_path, workbook_name)
CreateDeck ==
    /\ pc = "assemble" /\ export_type = "ppt"
    /\ AllOpenable(files, img_dir, img_indexing)
    /\ dirs' = dirs \cup {<<"ppt">>}
    /\ doc' = [path |-> <<"ppt", config.workbook_name, Dot, "pptx">>,
               pages |-> create_deck(files, img_dir, img_indexing)]
    /\ pc' = "cleanup"
    /\ UNCHANGED <<export_type, session, config, workbook, image_export_option,
                   export_id, img_dir, files, img_indexing, server_calls, error,
                   exit_code, cleanup_attempted, sign_out_attempted>>
    /\ UNCHANGED besideExport

\* STEP 6 (pdf): export_as_pdf(img_dir, output_file, pdf_config)
ExportAsPdf ==
    /\ pc = "assemble" /\ export_type = "pdf"
    /\ AllOpenable(files, img_dir, img_indexing)
    /\ dirs' = dirs \cup {<<"pdf">>}
    /\ doc' = [path |-> <<"pdf", config.workbook_name, Dot, "pdf">>,
               pages |-> export_as_pdf(files, img_dir, img_indexing)]
    /\ pc' = "cleanup"
    /\ UNCHANGED <<export_type, session, config, workbook, image_export_option,
                   export_id, img_dir, files, img_indexing, server_calls, error,
                   exit_code, cleanup_attempted, sign_out_attempted>>
    /\ UNCHANGED besideExport

\* STEP 6: building or saving the document raises; nothing is written
AssembleFails ==
    /\ pc = "assemble"
    /\ dirs' = dirs \cup {<<export_type>>}
    /\ Raise([type |-> "IOError", msg |-> "", stage |-> "assemble"])
    /\ UNCHANGED <<export_type, session, config, workbook, image_export_option,
                   export_id, img_dir, files, img_indexing, server_calls, doc,
                   cleanup_attempted, sign_out_attempted>>
    /\ UNCHANGED besideExport

\* STEP 7: remove the files listed in img_dir, then rmdir(img_dir)
Cleanup ==
    /\ pc = "cleanup"
    /\ cleanup_attempted' = TRUE
    /\ IF img_dir \notin dirs
       THEN /\ Raise([type |-> "FileNotFoundError", msg |-> "", stage |-> "cleanup"])
            /\ UNCHANGED <<files, dirs>>
       ELSE /\ files' = files \ ListDir(files, img_dir)
            /\ dirs' = dirs \ {img_dir}
            /\ pc' = "sign_out"
            /\ UNCHANGED <<error, exit_code>>
    /\ UNCHANGED <<export_type, session, config, workbook, image_export_option,
                   export_id, img_dir, img_indexing, server_calls, doc,
                   sign_out_attempted>>
    /\ UNCHANGED besideExport

\* STEP 8: server.auth.sign_out(), then the process ends
SignOut ==
    /\ pc = "sign_out"
    /\ sign_out_attempted' = TRUE
    /\ session' = "signed_out"
    /\ pc' = "exit"
    /\ exit_code' = 0
    /\ UNCHANGED <<export_type, config, workbook, image_export_option, export_id,
                   img_dir, dirs, files, img_indexing, server_calls, doc, error,
                   cleanup_attempted>>
    /\ UNCHANGED besideExport

Next ==
    \/ ConnectTableau \/ ConnectTableauFails
    \/ LoadConfig \/ LoadConfigFails
    \/ GetWorkbook
    \/ PopulateViews \/ PopulateViewsFails
    \/ GetImageExport
    \/ MakeDirs
    \/ ExportImages \/ ExportImagesFails
    \/ GenerateSlideImgs \/ GenerateSlideImgsFails
    \/ CreateDeck \/ ExportAsPdf \/ AssembleFails
    \/ Cleanup
    \/ SignOut

Spec == Init /\ [][Next]_vars

---------------------------------------------------------------------------
(* Two runs of the export, one after the other, on the same disk *)

\* a tile left in a scratch directory before the first run
StrayTile ==
    [dir |-> <<"img", "uuid-a", "slide_imgs">>,
     name |-> <<"Old", "_tile_", "0", "_", "0", Dot, "png">>,
     content |-> TileContent(<<"Old">>, 0, 0)]
StrayDirs == {<<"img">>, <<"img", "uuid-a">>, <<"img", "uuid-a", "slide_imgs">>}

InitTwoRuns ==
    /\ pc = "connect"
    /\ export_type \in ExportTypes
    /\ session = "none"
    /\ config = NoConfig
    /\ workbook = NoWorkbook
    /\ image_export_option = NoOption
    /\ export_id = ""
    /\ img_dir = <<>>
    /\ \/ dirs = {} /\ files = {}
       \/ dirs = StrayDirs /\ files = {StrayTile}
    /\ img_indexing = <<>>
    /\ server_calls = <<>>
    /\ doc = NoDoc
    /\ error = NoError
    /\ exit_code = -1
    /\ cleanup_attempted = FALSE
    /\ sign_out_attempted = FALSE
    /\ ResolveIdle /\ LayoutIdle /\ RerunIdle /\ ReplicateIdle /\ DeactIdle

\* the script is started again after a run that wrote its document: a new
\* process (img_indexing = [] again), the disk as the first run left it
SecondRun ==
    /\ run = 1
    /\ pc = "exit" /\ doc # NoDoc
    /\ run' = 2
    /\ prev' = [config |-> config, workbook |-> workbook, index |-> img_indexing,
                pages |-> Len(doc.pages), export_id |-> export_id]
    /\ pc' = "connect"
    /\ export_type' \in ExportTypes
    /\ session' = "none"
    /\ config' = NoConfig
    /\ workbook' = NoWorkbook
    /\ image_export_option' = NoOption
    /\ export_id' = ""
    /\ img_dir' = <<>>
    /\ img_indexing' = <<>>
    /\ server_calls' = <<>>
    /\ doc' = NoDoc
    /\ error' = NoError
    /\ exit_code' = -1
    /\ cleanup_attempted' = FALSE
    /\ sign_out_attempted' = FALSE
    /\ UNCHANGED <<dirs, files, resolveVars, layoutVars, replicateVars, deactVars>>

\* the second run reads the same configuration file and meets the same server
SameInputs ==
    run = 2 =>
        /\ (pc = "load_config" /\ config' # config) => config' = prev.config
        /\ pc = "get_workbook" =>
              /\ pc' = "populate_views"
              /\ workbook' = [prev.workbook EXCEPT !.views = <<>>]
        /\ (pc = "populate_views" /\ pc' = "get_image_export") => workbook' = prev.workbook

NextTwoRuns == (Next /\ SameInputs) \/ SecondRun
SpecTwoRuns == InitTwoRuns /\ [][NextTwoRuns]_vars

---------------------------------------------------------------------------
(* Claims about get_workbook (SpecResolve) *)

IsMatch(w) == w.name = "WB" /\ w.project_name = "P"
MatchCount == Cardinality({i \in 1..Len(all_workbooks) : IsMatch(all_workbooks[i])})

\* C2: whatever the order of the server's list, get_workbook fails with the
\* not-found error when no workbook matches name and project, returns the
\* matching workbook when exactly one matches, and fails with an error that
\* differs from the not-found error when two or more match.
C2_WorkbookResolution ==
    resolution.called =>
        /\ MatchCount = 0 =>
              /\ resolution.raised # NoError
              /\ resolution.raised.msg = "not found"
        /\ MatchCount = 1 =>
              /\ resolution.raised = NoError
              /\ \E i \in 1..Len(all_workbooks) :
                    IsMatch(all_workbooks[i]) /\ resolution.value = all_workbooks[i]
        /\ MatchCount >= 2 =>
              /\ resolution.raised # NoError
              /\ resolution.raised.msg # "not found"

\* the ambiguous case: two matches that are not adjacent in the list
C2_Witness ==
    /\ resolution.called
    /\ Len(all_workbooks) = 3
    /\ IsMatch(all_workbooks[1]) /\ ~IsMatch(all_workbooks[2]) /\ IsMatch(all_workbooks[3])
    /\ resolution.raised.msg = "Multiple workbooks"

---------------------------------------------------------------------------
(* Claims about the layout arithmetic (SpecLayout) *)

ImgW == img_size[1]
ImgH == img_size[2]

InsideImage(b) ==
    /\ 0 <= b.left /\ b.left <= b.right /\ b.right <= ImgW
    /\ 0 <= b.upper /\ b.upper <= b.lower /\ b.lower <= ImgH

Disjoint(a, b) ==
    \/ a.right <= b.left \/ b.right <= a.left
    \/ a.lower <= b.upper \/ b.lower <= a.upper

\* C7: split_image(rows=2, cols=2) crops the row-0 tile at (0, 0, W, H//2) and
\* the row-1 tiles at (c*(W//2), H//2, (c+1)*(W//2), 2*(H//2)); all boxes lie
\* inside the image, no two overlap, and an odd last column or row is in no
\* row-1 tile.
C7_TileGeometry ==
    lpc = "split" =>
        /\ Len(tiles) = 3
        /\ tiles[1].row = 0 /\ tiles[1].col = 0
        /\ tiles[1].box = [left |-> 0, upper |-> 0, right |-> ImgW, lower |-> ImgH \div 2]
        /\ \A c \in {0, 1} :
              /\ tiles[c + 2].row = 1 /\ tiles[c + 2].col = c
              /\ tiles[c + 2].box = [left |-> c * (ImgW \div 2), upper |-> ImgH \div 2,
                                     right |-> (c + 1) * (ImgW \div 2),
                                     lower |-> 2 * (ImgH \div 2)]
              /\ TileWidth(tiles[c + 2]) = ImgW \div 2
              /\ TileHeight(tiles[c + 2]) = ImgH \div 2
              /\ ImgW % 2 = 1 => tiles[c + 2].box.right <= ImgW - 1
              /\ ImgH % 2 = 1 => tiles[c + 2].box.lower <= ImgH - 1
        /\ TileWidth(tiles[1]) = ImgW /\ TileHeight(tiles[1]) = ImgH \div 2
        /\ \A k \in 1..3 : InsideImage(tiles[k].box)
        /\ \A j, k \in 1..3 : j # k => Disjoint(tiles[j].box, tiles[k].box)

\* an image with odd width and odd height has been split
C7_Witness ==
    /\ lpc = "split"
    /\ ImgW = 5 /\ ImgH = 3
    /\ tiles[3].box = [left |-> 2, upper |-> 1, right |-> 4, lower |-> 2]

\* C8: in both deck assemblers the placed size stays within the content
\* bounds, keeps the tile's aspect ratio, and is centred with non-negative
\* offsets.
C8_FitsAndCentred ==
    placed.variant # "none" =>
        /\ FLe(placed.width, placed.bound_w)
        /\ FLe(placed.height, placed.bound_h)
        /\ FMul(placed.width, FInt(placed.img_height))
             = FMul(placed.height, FInt(placed.img_width))
        /\ FLe(FInt(0), placed.left) /\ FLe(FInt(0), placed.top)
        /\ FSub(placed.canvas_w, FMul(FInt(2), placed.left)) = placed.width
        /\ FSub(placed.canvas_h, FMul(FInt(2), placed.top)) = placed.height

\* a tile wider than the slide's content area has been scaled down to it
C8_Witness ==
    /\ placed.variant = "ppt"
    /\ placed.img_width = 750 /\ placed.img_height = 2
    /\ placed.width = Inches(8)
    /\ FLt(placed.height, Inches(6))

\* C9: an image is never scaled up: the placed size is at most the tile's
\* native size, and equals it when the native size fits the content area.
C9_NeverScaledUp ==
    placed.variant # "none" =>
        /\ FLe(placed.width, FInt(placed.img_width))
        /\ FLe(placed.height, FInt(placed.img_height))
        /\ (FLe(FInt(placed.img_width), placed.bound_w)
              /\ FLe(FInt(placed.img_height), placed.bound_h))
           => (placed.width = FInt(placed.img_width)
                 /\ placed.height = FInt(placed.img_height))

---------------------------------------------------------------------------
(* Claims about the export pipeline (Spec) *)

ScratchDir == <<"img", export_id>>
\* generate_slide_imgs has returned: img_dir now names the tile directory
TilingDone == export_id # "" /\ img_dir = PathJoin(ScratchDir, "slide_imgs")
Exported == Selected(workbook.views, config.slide_views)
AllPresent == SeqRange(config.slide_views) \subseteq SeqRange(workbook.views)
IsUnder(dir, root) == Len(dir) >= Len(root) /\ SubSeq(dir, 1, Len(root)) = root

\* C1: once export_images and generate_slide_imgs have run for a configuration
\* whose N requested views are all on the workbook, the tile index has 3*N
\* entries: per exported view, in export order, the tiles (0,0), (1,0), (1,1).
C1_TileIndex ==
    (TilingDone /\ AllPresent) =>
        /\ Len(img_indexing) = 3 * Len(config.slide_views)
        /\ Len(Exported) = Len(config.slide_views)
        /\ \A i \in 1..Len(Exported) :
              \E j \in 1..Len(Exported[i]) :
                 LET base == SubSeq(Exported[i], 1, j)
                 IN /\ img_indexing[3 * i - 2] = base \o <<"_tile_", "0", "_", "0", Dot, "png">>
                    /\ img_indexing[3 * i - 1] = base \o <<"_tile_", "1", "_", "0", Dot, "png">>
                    /\ img_indexing[3 * i] = base \o <<"_tile_", "1", "_", "1", Dot, "png">>

\* two requested views, both on the workbook, have been exported and tiled
C1_Witness ==
    /\ TilingDone /\ AllPresent
    /\ config.slide_views = <<<<"Ops">>, <<"Sales">>>>
    /\ workbook.views = <<<<"Sales">>, <<"Ops">>>>
    /\ Len(img_indexing) = 6

\* C3: after a successful run the scratch directory img/<export_id> is gone,
\* with every image, CSV extract and tile written under it.
C3_ScratchRemoved ==
    (pc = "exit" /\ exit_code = 0) =>
        /\ ScratchDir \notin dirs
        /\ \A d \in dirs : ~IsUnder(d, ScratchDir)
        /\ \A f \in files : ~IsUnder(f.dir, ScratchDir)

\* C4: once the scratch directory exists, the run does not exit without
\* having attempted to remove its files, whichever stage failed.
C4_CleanupOnEveryExit ==
    (pc = "exit" /\ export_id # "") => cleanup_attempted

\* C5: a run that signed in does not exit without attempting to sign out.
C5_SignOutOnEveryExit ==
    (pc = "exit" /\ session # "none") => sign_out_attempted

\* C6: a configuration that has the three required keys and no filters key
\* does not make the run fail on the missing key.
C6_FiltersOptional ==
    (RequiredKeys \subseteq config.keys /\ "filters" \notin config.keys)
        => error.type # "KeyError"

\* C10: the saved document has one title page followed by one page per entry
\* of the tile index, page i+1 holding exactly the i-th tile; two present
\* views give 1 + 6 pages.
C10_OnePagePerTile ==
    doc # NoDoc =>
        /\ Len(doc.pages) = Len(img_indexing) + 1
        /\ doc.pages[1] = TitlePage
        /\ \A i \in 1..Len(img_indexing) :
              /\ doc.pages[i + 1].kind = "image"
              /\ Len(doc.pages[i + 1].images) = 1
              /\ doc.pages[i + 1].images[1].name = img_indexing[i]
              /\ doc.pages[i + 1].images[1].content.kind = "tile"
        /\ (AllPresent /\ Len(config.slide_views) = 2) => Len(doc.pages) = 7

\* a PDF of seven pages has been written for two present views
C10_Witness ==
    /\ doc # NoDoc
    /\ export_type = "pdf"
    /\ AllPresent /\ Len(config.slide_views) = 2
    /\ Len(doc.pages) = 7
    /\ doc.pages[7].images[1].name = img_indexing[6]

\* position of a view on the workbook
ViewPos(v) == CHOOSE i \in 1..Len(workbook.views) : workbook.views[i] = v

\* C11: when export_images has run, the image index has one entry V.png per
\* view V of the workbook that is named in slide_views, in workbook order,
\* whatever the order of slide_views; no other view or name has an entry.
C11_IndexFollowsWorkbook ==
    pc = "generate_slide_imgs" =>
        LET wanted == SeqRange(workbook.views) \cap SeqRange(config.slide_views)
        IN /\ Len(img_indexing) = Cardinality(wanted)
           /\ \A v \in wanted :
                 Cardinality({i \in 1..Len(img_indexing) : img_indexing[i] = v \o <<Dot, "png">>}) = 1
           /\ \A i \in 1..Len(img_indexing) :
                 \E v \in wanted : img_indexing[i] = v \o <<Dot, "png">>
           /\ \A i, j \in 1..Len(img_indexing) : \A v, w \in wanted :
                 (i < j /\ img_indexing[i] = v \o <<Dot, "png">>
                        /\ img_indexing[j] = w \o <<Dot, "png">>)
                    => ViewPos(v) < ViewPos(w)

\* slide_views and the workbook list the same two views in opposite orders
C11_Witness ==
    /\ pc = "generate_slide_imgs"
    /\ config.slide_views = <<<<"Ops">>, <<"Sales">>>>
    /\ workbook.views = <<<<"Sales">>, <<"Ops">>>>
    /\ img_indexing = <<<<"Sales", Dot, "png">>, <<"Ops", Dot, "png">>>>

\* the tile name the document shows on page i + 1
PageTile(i) == doc.pages[i + 1].images[1]
\* the three tile names of a view whose files are named from base
TileNamesOf(base) ==
    <<base \o <<"_tile_", "0", "_", "0", Dot, "png">>,
      base \o <<"_tile_", "1", "_", "0", Dot, "png">>,
      base \o <<"_tile_", "1", "_", "1", Dot, "png">>>>
\* the document's image pages are the tiles of the views of order, view by view
PagesFollow(order) ==
    /\ Len(doc.pages) = 3 * Len(order) + 1
    /\ \A i \in 1..Len(order) :
          \E j \in 1..Len(order[i]) :
             /\ PageTile(3 * i - 2).name = TileNamesOf(SubSeq(order[i], 1, j))[1]
             /\ PageTile(3 * i - 1).name = TileNamesOf(SubSeq(order[i], 1, j))[2]
             /\ PageTile(3 * i).name = TileNamesOf(SubSeq(order[i], 1, j))[3]
             /\ PageTile(3 * i - 2).content.row = 0 /\ PageTile(3 * i - 2).content.col = 0
             /\ PageTile(3 * i - 1).content.row = 1 /\ PageTile(3 * i - 1).content.col = 0
             /\ PageTile(3 * i).content.row = 1 /\ PageTile(3 * i).content.col = 1

\* the exported views in the order slide_views names them
ExportedInConfigOrder ==
    LET OnWorkbook(v) == v \in SeqRange(workbook.views)
    IN SelectSeq(config.slide_views, OnWorkbook)

C13_AbortOnViewFailure ==
    error.stage = "export_images" =>
        /\ pc = "exit" /\ exit_code = 1
        /\ doc = NoDoc
        /\ \A f \in files : f.content.kind # "tile"
        /\ \A i \in 1..Len(img_indexing) :
              \E v \in SeqRange(workbook.views) : img_indexing[i] = v \o <<Dot, "png">>
        /\ Len(server_calls) >= 1 /\ Len(server_calls) <= 2 * Len(Exported)
        /\ \A i \in 1..Len(server_calls) :
              /\ server_calls[i].view = Exported[(i + 1) \div 2]
              /\ server_calls[i].call = IF i % 2 = 1 THEN "populate_image" ELSE "populate_csv"

\* the image request of the first of two views failed; the second was never asked
C13_Witness ==
    /\ error.stage = "export_images"
    /\ Len(Exported) = 2
    /\ Len(server_calls) = 1
    /\ img_indexing = <<>>

\* C14: the tiles of an exported view V are named V_tile_0_0.png,
\* V_tile_1_0.png, V_tile_1_1.png with V the full view name, and no two
\* entries of the tile index are the same file name.
C14_TileNamesUseViewName ==
    TilingDone =>
        /\ Len(img_indexing) = 3 * Len(Exported)
        /\ \A i \in 1..Len(Exported) :
              /\ img_indexing[3 * i - 2] = TileNamesOf(Exported[i])[1]
              /\ img_indexing[3 * i - 1] = TileNamesOf(Exported[i])[2]
              /\ img_indexing[3 * i] = TileNamesOf(Exported[i])[3]
        /\ \A i, j \in 1..Len(img_indexing) : i # j => img_indexing[i] # img_indexing[j]

---------------------------------------------------------------------------
(* Claims about two runs (SpecTwoRuns) *)

\* C15: a second run with the same configuration against the same server
\* state produces the same tile index and a document with the same number of
\* pages as the first, whatever its export id and whatever is on disk.
C15_SecondRunSameResult ==
    (run = 2 /\ TilingDone /\ config = prev.config /\ workbook = prev.workbook) =>
        /\ img_indexing = prev.index
        /\ doc # NoDoc => Len(doc.pages) = prev.pages

\* the second run, under another export id and with the first run's files
\* still on disk, wrote its seven pages
C15_Witness ==
    /\ run = 2 /\ doc # NoDoc
    /\ config = prev.config /\ workbook = prev.workbook
    /\ export_id # prev.export_id
    /\ \E f \in files : f.dir = <<"img", prev.export_id>>
    /\ Len(img_indexing) = 6 /\ Len(doc.pages) = 7

----------------------------------------------------------------------------
(* replicatePermissions 1.py: replication of 'prod' permissions to 'dev'   *)

MaxGroups == 2
MaxProjects == 2
MaxRules == 2

\* Group names are sequences of tokens, so that lower(), startswith('prod')
\* and replace('prod', 'dev') are computed on them.
GroupNames ==
    {<<"Prod", "-a">>, <<"Dev", "-a">>, <<"prod", "-", "prod">>,
     <<"dev", "-", "prod">>, <<"dev", "-", "dev">>, <<"ops">>}

\* str.lower()
LowerToken(t) ==
    IF t = "Prod" THEN "prod" ELSE IF t = "Dev" THEN "dev" ELSE t

Lower(name) == [i \in 1..Len(name) |-> LowerToken(name[i])]

\* str.startswith('prod')
StartsWithProd(name) == name # <<>> /\ name[1] = "prod"

\* str.replace('prod', 'dev'): every occurrence is replaced
ReplaceProd(name) ==
    [i \in 1..Len(name) |-> IF name[i] = "prod" THEN "dev" ELSE name[i]]

NoGroup == [id |-> 0, name |-> <<>>]
Levels == {"project", "workbook", "datasource"}

Capabilities(level, project_id, grantee) ==
    [level |-> level, project |-> project_id, grantee |-> grantee.id]

\* get_all_groups: the groups by id, in dict order
GroupIndex(names) == [i \in 1..Len(names) |-> [id |-> i, name |-> names[i]]]

Grantees(n) ==
    {[tag_name |-> "user", id |-> 0]}
        \cup {[tag_name |-> "group", id |-> i] : i \in 1..n}

Rules(level, project_id, grantees) ==
    [i \in 1..Len(grantees) |->
        [grantee |-> grantees[i],
         capabilities |-> Capabilities(level, project_id, grantees[i])]]

\* get_projects and the three populate_* calls: a project with its rules
Project(project_id, grantees) ==
    [id |-> project_id,
     permissions |-> Rules("project", project_id, grantees),
     default_workbook_permissions |-> Rules("workbook", project_id, grantees),
     default_datasource_permissions |-> Rules("datasource", project_id, grantees)]

check_prod_group(group) == StartsWithProd(Lower(group.name))

RECURSIVE get_prod_permissions(_, _)
get_prod_permissions(permissions, groups) ==
    IF permissions = <<>> THEN <<>>
    ELSE LET permission == Head(permissions)
             rest == get_prod_permissions(Tail(permissions), groups)
         IN IF permission.grantee.tag_name # "group" THEN rest
            ELSE IF check_prod_group(groups[permission.grantee.id])
                 THEN <<permission>> \o rest
                 ELSE rest

RECURSIVE FirstNamed(_, _)
FirstNamed(group_index, group_name) ==
    IF group_index = <<>> THEN NoGroup
    ELSE IF Lower(Head(group_index).name) = group_name THEN Head(group_index)
    ELSE FirstNamed(Tail(group_index), group_name)

get_dev_group(group, group_index) ==
    LET lowered == Lower(group.name)
        group_name == IF StartsWithProd(lowered) THEN ReplaceProd(lowered) ELSE lowered
    IN FirstNamed(group_index, group_name)

RECURSIVE get_default_permission(_, _)
get_default_permission(permissions, group_id) ==
    IF permissions = <<>> THEN [level |-> "none", project |-> 0, grantee |-> 0]
    ELSE IF Head(permissions).grantee.id = group_id THEN Head(permissions).capabilities
    ELSE get_default_permission(Tail(permissions), group_id)

Update(level, project, dev_group, capabilities) ==
    [level |-> level, project |-> project.id, grantee |-> dev_group.id,
     capabilities |-> capabilities]

apply_permissions(project, dev_group, permission) ==
    <<Update("project", project, dev_group, permission.capabilities),
      Update("workbook", project, dev_group,
             get_default_permission(project.default_workbook_permissions,
                                    permission.grantee.id)),
      Update("datasource", project, dev_group,
             get_default_permission(project.default_datasource_permissions,
                                    permission.grantee.id))>>

RECURSIVE replicate_dev_permissions(_, _, _)
replicate_dev_permissions(project, valid_permisssions, groups) ==
    IF valid_permisssions = <<>> THEN <<>>
    ELSE LET permission == Head(valid_permisssions)
             dev_group == get_dev_group(groups[permission.grantee.id], groups)
             rest == replicate_dev_permissions(project, Tail(valid_permisssions), groups)
         IN IF dev_group = NoGroup THEN rest
            ELSE apply_permissions(project, dev_group, permission) \o rest

\* the update calls of one project of init_replicate's second loop
ProjectUpdates(project, groups) ==
    replicate_dev_permissions(project,
                              get_prod_permissions(project.permissions, groups), groups)

InitReplicate ==
    /\ ExportIdle /\ ResolveIdle /\ LayoutIdle /\ RerunIdle /\ DeactIdle
    /\ r_pc = "populate"
    /\ \E names \in DistinctSeqs(GroupNames, MaxGroups) :
         /\ r_groups = GroupIndex(names)
         /\ \E k \in 1..MaxProjects :
              \E rules \in [1..k -> DistinctSeqs(Grantees(Len(names)), MaxRules)] :
                r_projects = [i \in 1..k |-> Project(i, rules[i])]
    /\ r_next = 1
    /\ r_updates = <<>>

\* init_replicate, first loop: the permissions of every project are populated
PopulatePermissions ==
    /\ r_pc = "populate"
    /\ r_pc' = "replicate"
    /\ UNCHANGED <<r_groups, r_projects, r_next, r_updates, besideReplicate>>

\* init_replicate, second loop: one project, every update call succeeding
ReplicateProject ==
    /\ r_pc = "replicate"
    /\ r_updates' = r_updates \o ProjectUpdates(r_projects[r_next], r_groups)
    /\ r_next' = r_next + 1
    /\ r_pc' = IF r_next = Len(r_projects) THEN "done" ELSE "replicate"
    /\ UNCHANGED <<r_groups, r_projects, besideReplicate>>

\* an update call raises: replicate_dev_permissions re-raises and the script ends
ReplicateProjectFails ==
    /\ r_pc = "replicate"
    /\ LET updates == ProjectUpdates(r_projects[r_next], r_groups)
       IN \E sent \in 0..(Len(updates) - 1) :
            r_updates' = r_updates \o SubSeq(updates, 1, sent)
    /\ r_pc' = "failed"
    /\ UNCHANGED <<r_groups, r_projects, r_next, besideReplicate>>

NextReplicate == PopulatePermissions \/ ReplicateProject \/ ReplicateProjectFails

SpecReplicate == InitReplicate /\ [][NextReplicate]_vars

\* -- C16 ------------------------------------------------------------------

\* the prod group's lowercased name with its leading 'prod' replaced by 'dev'
LeadingProdReplaced(name) == <<"dev">> \o Tail(Lower(name))

IsProdRule(permission) ==
    /\ permission.grantee.tag_name = "group"
    /\ StartsWithProd(Lower(r_groups[permission.grantee.id].name))

TargetOf(permission, g) ==
    Lower(r_groups[g].name) = LeadingProdReplaced(r_groups[permission.grantee.id].name)

\* the update calls the replication has to make: one per level, for every
\* prod rule whose dev group exists
ExpectedCalls ==
    {c \in [level : Levels, project : 1..Len(r_projects), grantee : 1..Len(r_groups)] :
        \E i \in 1..Len(r_projects[c.project].permissions) :
            LET permission == r_projects[c.project].permissions[i]
            IN IsProdRule(permission) /\ TargetOf(permission, c.grantee)}

SentCalls ==
    {[level |-> r_updates[i].level, project |-> r_updates[i].project,
      grantee |-> r_updates[i].grantee] : i \in 1..Len(r_updates)}

\* C16: when the replication has run through, update calls have been made at
\* project, default-workbook and default-datasource level exactly for the
\* rules of prod groups whose dev group (leading 'prod' replaced by 'dev',
\* rest of the name unchanged) exists, each with that dev group as grantee and,
\* at project level, with the rule's capabilities; rules of users, of non-prod
\* groups and of prod groups without a dev group cause no update.
C16_ReplicatedToDevGroup ==
    r_pc = "done" =>
        /\ SentCalls = ExpectedCalls
        /\ \A i \in 1..Len(r_updates) :
              r_updates[i].level = "project" =>
                  \E j \in 1..Len(r_projects[r_updates[i].project].permissions) :
                      LET permission == r_projects[r_updates[i].project].permissions[j]
                      IN /\ IsProdRule(permission)
                         /\ TargetOf(permission, r_updates[i].grantee)
                         /\ r_updates[i].capabilities = permission.capabilities

\* the same statement on the names in which 'prod' occurs once only
ProdOnce(name) == \A i \in 2..Len(name) : Lower(name)[i] # "prod"

C16_SingleProdNames ==
    (\A g \in 1..Len(r_groups) : ProdOnce(r_groups[g].name)) => C16_ReplicatedToDevGroup

C16_Replicated ==
    /\ r_pc = "done"
    /\ Len(r_updates) >= 3
    /\ \E g \in 1..Len(r_groups) : r_groups[g].name = <<"Prod", "-a">>

----------------------------------------------------------------------------
(* text.py: deactivation of viewers who have not signed in for a long time *)

MaxUsers == 3
INACTIVE_THRESHOLD == 500

\* a user of the site: site role, and the whole days since the last login
\* (has_login is FALSE where last_login is None)
SiteRoles == {"Viewer", "Explorer"}
UserKinds ==
    {[site_role |-> role, has_login |-> FALSE, days_inactive |-> 0] : role \in SiteRoles}
        \cup [site_role : SiteRoles, has_login : {TRUE},
              days_inactive : {INACTIVE_THRESHOLD, INACTIVE_THRESHOLD + 1}]

UserLists == UNION {[1..k -> UserKinds] : k \in 0..MaxUsers}

\* a call binds when it passes as many arguments as the def has parameters;
\* otherwise Python raises TypeError before the body runs
Binds(parameters, arguments) == Len(arguments) = Len(parameters)

get_sites_parameters == <<"server">>
deactivate_users_parameters == <<"inactive_users", "server">>

\* __main__, task 2: the users whose site role is 'Viewer' (by position)
IsViewer(user) == user.site_role = "Viewer"

RECURSIVE ViewersFrom(_, _)
ViewersFrom(user_list, i) ==
    IF i > Len(user_list) THEN <<>>
    ELSE (IF IsViewer(user_list[i]) THEN <<i>> ELSE <<>>) \o ViewersFrom(user_list, i + 1)

viewer_list(user_list) == ViewersFrom(user_list, 1)

IsInactive(user) == user.has_login /\ user.days_inactive > INACTIVE_THRESHOLD

RECURSIVE get_inactive_users(_, _)
get_inactive_users(users, viewers) ==
    IF viewers = <<>> THEN <<>>
    ELSE (IF IsInactive(users[Head(viewers)]) THEN <<Head(viewers)>> ELSE <<>>)
            \o get_inactive_users(users, Tail(viewers))

\* deactivate_users: the users after the loop, and the updates sent
deactivate_users(users, inactive_users) ==
    [users |-> [i \in 1..Len(users) |->
                   IF i \in SeqRange(inactive_users)
                   THEN [users[i] EXCEPT !.site_role = "Unlicensed"]
                   ELSE users[i]],
     sent |-> SeqRange(inactive_users)]

disable_minimum_site_role == "None"
enable_minimum_site_role == "Viewer"

InitDeactivate ==
    /\ ExportIdle /\ ResolveIdle /\ LayoutIdle /\ RerunIdle /\ ReplicateIdle
    /\ d_pc = "start"
    /\ d_users \in UserLists
    /\ d_min_role = "Viewer"
    /\ d_session = "none"
    /\ d_sign_outs = 0
    /\ d_inactive = <<>>
    /\ d_sent = {}
    /\ d_error = ""

\* __main__: site_list = get_sites()
GetSites ==
    /\ d_pc = "start"
    /\ IF Binds(get_sites_parameters, <<>>)
       THEN d_pc' = "signin" /\ d_error' = d_error
       ELSE d_pc' = "outer_except" /\ d_error' = "TypeError"
    /\ UNCHANGED <<d_users, d_min_role, d_session, d_sign_outs, d_inactive, d_sent,
                   besideDeact>>

\* __main__: except Exception as e: print("ERROR: ", e)
OuterExcept ==
    /\ d_pc = "outer_except"
    /\ d_pc' = "end"
    /\ UNCHANGED <<d_users, d_min_role, d_session, d_sign_outs, d_inactive, d_sent,
                   d_error, besideDeact>>

NextDeactivate == GetSites \/ OuterExcept

SpecDeactivate == InitDeactivate /\ [][NextDeactivate]_vars

\* ---- the body of the site loop, from the sign-in to one site ----

InitSite ==
    /\ ExportIdle /\ ResolveIdle /\ LayoutIdle /\ RerunIdle /\ ReplicateIdle
    /\ d_pc = "signin"
    /\ d_users \in UserLists
    /\ d_min_role = "Viewer"
    /\ d_session = "none"
    /\ d_sign_outs = 0
    /\ d_inactive = <<>>
    /\ d_sent = {}
    /\ d_error = ""

\* server = tableau_signin(site_list)
TableauSignin ==
    /\ d_pc = "signin"
    /\ d_session' = "signed_in"
    /\ d_pc' = "disable"
    /\ UNCHANGED <<d_users, d_min_role, d_sign_outs, d_inactive, d_sent, d_error,
                   besideDeact>>

\* sign_in raises: outside the inner try, so the outer handler takes it
TableauSigninFails ==
    /\ d_pc = "signin"
    /\ d_error' = "ServerError"
    /\ d_pc' = "outer_except"
    /\ UNCHANGED <<d_users, d_min_role, d_session, d_sign_outs, d_inactive, d_sent,
                   besideDeact>>

\* task 0
DisableMinimumSiteRole ==
    /\ d_pc = "disable"
    /\ d_min_role' = disable_minimum_site_role
    /\ d_pc' = "users"
    /\ UNCHANGED <<d_users, d_session, d_sign_outs, d_inactive, d_sent, d_error,
                   besideDeact>>

\* server.groups.get() raises in disable_minimum_site_role
DisableMinimumSiteRoleFails ==
    /\ d_pc = "disable"
    /\ d_error' = "ServerError"
    /\ d_pc' = "except"
    /\ UNCHANGED <<d_users, d_min_role, d_session, d_sign_outs, d_inactive, d_sent,
                   besideDeact>>

\* tasks 1 to 4: get_users, the viewer filter, get_inactive_users, save_info
IdentifyInactive ==
    /\ d_pc = "users"
    /\ d_inactive' = get_inactive_users(d_users, viewer_list(d_users))
    /\ d_pc' = "deactivate"
    /\ UNCHANGED <<d_users, d_min_role, d_session, d_sign_outs, d_sent, d_error,
                   besideDeact>>

\* server.users.get() or the write of the csv file raises
IdentifyInactiveFails ==
    /\ d_pc = "users"
    /\ d_error' = "ServerError"
    /\ d_pc' = "except"
    /\ UNCHANGED <<d_users, d_min_role, d_session, d_sign_outs, d_inactive, d_sent,
                   besideDeact>>

\* tasks 5 and 6: deactivate_users(inactive_users); enable_minimum_site_role(server)
DeactivateAndEnable ==
    /\ d_pc = "deactivate"
    /\ IF Binds(deactivate_users_parameters, <<d_inactive>>)
       THEN /\ d_users' = deactivate_users(d_users, d_inactive).users
            /\ d_sent' = deactivate_users(d_users, d_inactive).sent
            /\ d_min_role' = enable_minimum_site_role
            /\ d_pc' = "finally"
            /\ d_error' = d_error
       ELSE /\ d_error' = "TypeError"
            /\ d_pc' = "except"
            /\ UNCHANGED <<d_users, d_sent, d_min_role>>
    /\ UNCHANGED <<d_session, d_sign_outs, d_inactive, besideDeact>>

\* except Exception as e: print(f"ERROR: Failed to process site ...")
InnerExcept ==
    /\ d_pc = "except"
    /\ d_pc' = "finally"
    /\ UNCHANGED <<d_users, d_min_role, d_session, d_sign_outs, d_inactive, d_sent,
                   d_error, besideDeact>>

\* finally: server.auth.sign_out()
FinallySignOut ==
    /\ d_pc = "finally"
    /\ d_session' = "signed_out"
    /\ d_sign_outs' = d_sign_outs + 1
    /\ d_pc' = "end"
    /\ UNCHANGED <<d_users, d_min_role, d_inactive, d_sent, d_error, besideDeact>>

NextSite ==
    \/ TableauSignin
    \/ TableauSigninFails
    \/ DisableMinimumSiteRole
    \/ DisableMinimumSiteRoleFails
    \/ IdentifyInactive
    \/ IdentifyInactiveFails
    \/ DeactivateAndEnable
    \/ InnerExcept
    \/ FinallySignOut
    \/ OuterExcept

SpecSite == InitSite /\ [][NextSite]_vars

\* -- C17 ------------------------------------------------------------------

\* C17: when the script has ended, every user of the site whose site role was
\* 'Viewer', whose last login is known and lies more than 500 whole days back
\* has the site role 'Unlicensed' and an update was sent for that user; no
\* other user was modified.  (d_inactive is not used: the users are judged
\* by the role and login the server holds.)
C17_InactiveViewersUnlicensed ==
    d_pc = "end" =>
        \A i \in 1..Len(d_users) :
            IF d_users[i].has_login /\ d_users[i].days_inactive > INACTIVE_THRESHOLD
                   /\ d_users[i].site_role \in {"Viewer", "Unlicensed"}
            THEN d_users[i].site_role = "Unlicensed" /\ i \in d_sent
            ELSE i \notin d_sent

\* the half of C17 the script keeps: no user is modified who should not be
C17_NoOtherUserModified ==
    /\ d_sent \subseteq {i \in 1..Len(d_users) :
            d_users[i].has_login /\ d_users[i].days_inactive > INACTIVE_THRESHOLD}
    /\ \A i \in 1..Len(d_users) : d_users[i].site_role = "Unlicensed" => i \in d_sent

\* -- C18 ------------------------------------------------------------------

C18_SignedOutOnce ==
    /\ d_sign_outs <= 1
    /\ (d_pc = "end" /\ d_session # "none") =>
            (d_session = "signed_out" /\ d_sign_outs = 1)

C18_SignedOutDisabled ==
    d_pc = "end" /\ d_session = "signed_out" /\ d_min_role = disable_minimum_site_role

=============================================================================
